---- MODULE Spec2Model ----
(***************************************************************************)
(* Model of the autocomplete widget:                                       *)
(*   - debounce (src/unnamed/part_000): one timer slot per wrapped         *)
(*     callback, cleared and re-armed on every call;                       *)
(*   - Autocomplete (src/src/AutoComplete/AutoComplete.tsx): the React     *)
(*     component state (input, products, loading, error,                   *)
(*     isDropdownVisible), the effect that runs fetchProducts when input   *)
(*     changes, the pending fetch promises, and the blur timers.           *)
(* Time is a discrete clock `now`.  A timer fires when its delay has       *)
(* elapsed: the clock cannot pass a due timer.                             *)
(***************************************************************************)
EXTENDS Integers, Sequences, FiniteSets, TLC

VARIABLES
    now,                \* clock, in ticks
    \* ---- debounce (part_000) ----
    timers,             \* scheduled setTimeout callbacks of the debouncers
    timeoutId,          \* per wrapped callback: the closure variable timeoutId
    nextId,             \* next timer id handed out by setTimeout
    calls,              \* history: the calls made to debounced callbacks
    invoked,            \* history: the invocations of the wrapped callbacks
    \* ---- Autocomplete component ----
    phase,              \* "init" (constructed), "mounted", "crashed" (render threw)
    input,              \* useState("")
    products,           \* useState<Product[]>([])
    loading,            \* useState(false)
    error,              \* useState<string | null>(null)
    isDropdownVisible,  \* useState(false)
    inflight,           \* fetchProducts calls awaiting their response
    nReq,               \* number of requests issued so far
    blurTimers,         \* pending setTimeout callbacks of handleBlur; history
                        \* field `since`: what happened since that blur
    activeElement,      \* document.activeElement: "input" or "body"
    \* ---- history of the component ----
    last,               \* the most recent handler that ran
    lastChangeAt,       \* time of the most recent change of input
    lastResolved,       \* outcome of the most recently resolved fetch
    successSinceDismiss, \* a fetch succeeded and no selection/blur-dismissal followed
    \* ---- renderHighlightedText ----
    highlight           \* one call: its text, the input, and what it returned

debVars  == <<timers, timeoutId, nextId, calls, invoked>>
compVars == <<phase, input, products, loading, error, isDropdownVisible,
              inflight, nReq, blurTimers, activeElement>>
histVars == <<last, lastChangeAt, lastResolved, successSinceDismiss>>
vars     == <<now, debVars, compVars, histVars, highlight>>

----------------------------------------------------------------------------
\* Bounds of the model

\* the `wait` argument of debounce, in ticks
Wait == 2

\* the clock of the component stops here
MaxTime == 1

\* the clock of the debouncers stops here
MaxDebounceTime == 4

\* calls made to debounced callbacks
MaxCalls == 3

\* requests the component issues
MaxRequests == 2

\* blur timers pending at once
MaxBlurTimers == 1

\* the delay of handleBlur's setTimeout: 100 ms, one tick
BlurDelay == 1

Instances == {"A", "B"}
CallArgs  == {"x", "y"}

\* timeoutId = null: no timer was ever scheduled (timer ids start at 1)
NoTimer == 0

NoError == "null"
ErrMsg  == "Failed to fetch data"

\* what the user types, and the titles the endpoint returns
Typed        == {"", "a", "ap"}
ProductLists == {<<>>, <<"apple">>, <<"apple", "apricot">>}

----------------------------------------------------------------------------
\* setTimeout / clearTimeout

ClearTimeout_Noop(ts, id) == ts

\* clearTimeout(id): the timer with that id, if still pending, never fires
ClearTimeout(ts, id) == {t \in ts : t.id # id}

CancelPending_Never(d) == timers

CancelPending_Shared(d) ==
    {t \in timers : t.id \notin {timeoutId[e] : e \in Instances}}

\* if (timeoutId !== null) clearTimeout(timeoutId)
CancelPending(d) ==
    IF timeoutId[d] # NoTimer THEN ClearTimeout(timers, timeoutId[d]) ELSE timers

\* a timer whose delay has elapsed and that has not fired yet
TimerDue == (\E t \in timers : t.due <= now) \/ (\E b \in blurTimers : b.due <= now)

DebouncedCall_NoReuse(d, a) ==
    /\ Len(calls) < MaxCalls
    /\ ~TimerDue
    /\ timers' = IF timeoutId[d] # NoTimer
                 THEN CancelPending(d)
                 ELSE {[id |-> nextId, due |-> now + Wait, inst |-> d, args |-> a]}
    /\ timeoutId' = [timeoutId EXCEPT ![d] = nextId]
    /\ nextId' = nextId + 1
    /\ calls' = Append(calls, [inst |-> d, t |-> now, args |-> a])
    /\ UNCHANGED <<now, highlight, invoked, compVars, histVars>>

\* the function returned by debounce(callback, wait), called with arguments a on
\* instance d.  A timer task whose delay has elapsed was queued before a call
\* arriving at the same instant, so it runs first (~TimerDue).
DebouncedCall(d, a) ==
    /\ Len(calls) < MaxCalls
    /\ ~TimerDue
    /\ timers' = CancelPending(d) \cup
                 {[id |-> nextId, due |-> now + Wait, inst |-> d, args |-> a]}
    /\ timeoutId' = [timeoutId EXCEPT ![d] = nextId]
    /\ nextId' = nextId + 1
    /\ calls' = Append(calls, [inst |-> d, t |-> now, args |-> a])
    /\ UNCHANGED <<now, highlight, invoked, compVars, histVars>>

\* the timer callback: () => callback(...args)
TimerFire(t) ==
    /\ t \in timers
    /\ t.due <= now
    /\ timers' = timers \ {t}
    /\ invoked' = Append(invoked, [inst |-> t.inst, t |-> now, args |-> t.args])
    /\ UNCHANGED <<now, highlight, timeoutId, nextId, calls, compVars, histVars>>

\* one tick of time passes; due timers fire first
Tick(limit) ==
    /\ now < limit
    /\ ~TimerDue
    /\ now' = now + 1
    /\ UNCHANGED <<highlight, debVars, compVars, histVars>>

----------------------------------------------------------------------------
\* no call of renderHighlightedText is being followed
NoHighlight ==
    [text |-> <<>>, input |-> <<>>, parts |-> <<>>, marks |-> <<>>, status |-> "none"]

\* the debouncers and the component as constructed
InitBase ==
    /\ now = 0
    /\ timers = {}
    /\ timeoutId = [d \in Instances |-> NoTimer]
    /\ nextId = 1
    /\ calls = <<>>
    /\ invoked = <<>>
    /\ phase = "init"
    /\ input = ""
    /\ products = <<>>
    /\ loading = FALSE
    /\ error = NoError
    /\ isDropdownVisible = FALSE
    /\ inflight = {}
    /\ nReq = 0
    /\ blurTimers = {}
    /\ activeElement = "body"
    /\ last = [op |-> "init", arg |-> "", issued |-> FALSE]
    /\ lastChangeAt = 0
    /\ lastResolved = "none"
    /\ successSinceDismiss = FALSE

Init == InitBase /\ highlight = NoHighlight

NextDebounce ==
    \/ \E d \in Instances, a \in CallArgs : DebouncedCall(d, a)
    \/ \E t \in timers : TimerFire(t)
    \/ Tick(MaxDebounceTime)

SpecDebounce == Init /\ [][NextDebounce]_vars

\* the event loop: time passes, and a timer whose delay has elapsed is run
SpecDebounceFair ==
    /\ SpecDebounce
    /\ WF_vars(Tick(MaxDebounceTime))
    /\ WF_vars(\E t \in timers : TimerFire(t))
----------------------------------------------------------------------------
\* The Autocomplete component

\* what a pending fetch can resolve to: fetch() rejects, or a response
\* arrives with a status (ok = 2xx) and a body that json() parses or not; a
\* parsed body has a products field or not (data.products is undefined)
Responses ==
    {[rejected |-> TRUE, ok |-> FALSE, parses |-> FALSE, hasProducts |-> FALSE,
      products |-> <<>>]}
    \cup {[rejected |-> FALSE, ok |-> o, parses |-> FALSE, hasProducts |-> FALSE,
           products |-> <<>>] : o \in BOOLEAN}
    \cup {[rejected |-> FALSE, ok |-> o, parses |-> TRUE, hasProducts |-> FALSE,
           products |-> <<>>] : o \in BOOLEAN}
    \cup {[rejected |-> FALSE, ok |-> o, parses |-> TRUE, hasProducts |-> TRUE,
           products |-> l] : o \in BOOLEAN, l \in ProductLists}

\* the <ul> of suggestions is rendered: isDropdownVisible && products.length > 0
DropdownShown == isDropdownVisible /\ Len(products) > 0

Titles(l) == {l[i] : i \in 1..Len(l)}

ShouldFetch_Always(q) == TRUE

\* fetchProducts: if (!input) return
ShouldFetch(q) == q # ""

EffectRuns_SkipSelected(old, new) == old # new /\ new \notin Titles(products)

\* useEffect(..., [input]): the effect runs when input differs from the last render
EffectRuns(old, new) == old # new

LoadingAfterSettle_Keep == loading

\* finally { setLoading(false) }
LoadingAfterSettle == FALSE

VisibleAfterFailure_Hide == FALSE

\* the catch block does not touch isDropdownVisible
VisibleAfterFailure == isDropdownVisible

VisibleAfterSelect_Keep == isDropdownVisible

\* handleSelect: setIsDropdownVisible(false)
VisibleAfterSelect == FALSE

VisibleAfterStart_Show(q) == TRUE

VisibleAfterStart_HideOnEmpty(q) == IF q = "" THEN FALSE ELSE isDropdownVisible

\* fetchProducts up to its first await leaves isDropdownVisible alone
VisibleAfterStart(q) == isDropdownVisible

\* fetchProducts(q) up to its first await: setLoading(true) and the request is sent
FetchProductsStart(q) ==
    IF ShouldFetch(q)
    THEN /\ nReq < MaxRequests
         /\ loading' = TRUE
         /\ inflight' = inflight \cup {[id |-> nReq + 1, q |-> q]}
         /\ nReq' = nReq + 1
    ELSE UNCHANGED <<loading, inflight, nReq>>

\* the effect after a render in which input went from old to new
RunEffect(old, new) ==
    IF EffectRuns(old, new)
    THEN FetchProductsStart(new)
    ELSE UNCHANGED <<loading, inflight, nReq>>

\* first render: the effect runs once, with input = ""
Mount ==
    /\ phase = "init"
    /\ phase' = "mounted"
    /\ FetchProductsStart(input)
    /\ last' = [op |-> "mount", arg |-> input, issued |-> inflight' # inflight]
    /\ UNCHANGED <<now, highlight, debVars, input, products, error, isDropdownVisible,
                   blurTimers, activeElement, lastChangeAt, lastResolved,
                   successSinceDismiss>>

\* the user puts the focus in the input
FocusInput ==
    /\ phase = "mounted"
    /\ activeElement = "body"
    /\ activeElement' = "input"
    /\ last' = [op |-> "focus", arg |-> "", issued |-> FALSE]
    /\ UNCHANGED <<now, highlight, debVars, phase, input, products, loading, error,
                   isDropdownVisible, inflight, nReq, blurTimers, lastChangeAt,
                   lastResolved, successSinceDismiss>>

\* handleChange(event) with event.target.value = v, then the effect
HandleChange(v) ==
    /\ phase = "mounted"
    /\ activeElement = "input"
    /\ input' = v
    /\ RunEffect(input, v)
    /\ isDropdownVisible' = VisibleAfterStart(v)
    /\ last' = [op |-> "change", arg |-> v, issued |-> inflight' # inflight]
    /\ lastChangeAt' = IF v # input THEN now ELSE lastChangeAt
    /\ UNCHANGED <<now, highlight, debVars, phase, products, error, blurTimers,
                   activeElement, lastResolved, successSinceDismiss>>

\* the pending blur timers, with event ev noted in the history of those whose
\* delay has not elapsed yet
Noted(ev) ==
    {IF b.due > now THEN [b EXCEPT !.since = @ \cup {ev}] ELSE b : b \in blurTimers}

\* a click on the <li> of a rendered suggestion: handleSelect(title), then the effect
HandleSelect(title) ==
    /\ phase = "mounted"
    /\ activeElement = "body"
    /\ DropdownShown
    /\ title \in Titles(products)
    /\ input' = title
    /\ products' = <<>>
    /\ isDropdownVisible' = VisibleAfterSelect
    /\ RunEffect(input, title)
    /\ last' = [op |-> "select", arg |-> title, issued |-> inflight' # inflight]
    /\ lastChangeAt' = IF title # input THEN now ELSE lastChangeAt
    /\ successSinceDismiss' = FALSE
    /\ blurTimers' = Noted("select")
    /\ UNCHANGED <<now, highlight, debVars, phase, error, activeElement, lastResolved>>

\* the input loses the focus: handleBlur schedules its check
HandleBlur ==
    /\ phase = "mounted"
    /\ activeElement = "input"
    /\ Cardinality(blurTimers) < MaxBlurTimers
    /\ activeElement' = "body"
    /\ blurTimers' = blurTimers \cup
         {[n |-> CHOOSE k \in 1..MaxBlurTimers : \A b \in blurTimers : b.n # k,
           due |-> now + BlurDelay, since |-> {}]}
    /\ last' = [op |-> "blur", arg |-> "", issued |-> FALSE]
    /\ UNCHANGED <<now, highlight, debVars, phase, input, products, loading, error,
                   isDropdownVisible, inflight, nReq, lastChangeAt, lastResolved,
                   successSinceDismiss>>

FocusWithin_Always == TRUE

FocusWithin_OrFreshResults == activeElement = "input" \/ last.op = "success"

\* inputRef.current?.contains(document.activeElement): inputRef is the <input>
FocusWithin == activeElement = "input"

\* the callback of handleBlur's timer
BlurExpire(b) ==
    /\ phase = "mounted"
    /\ b \in blurTimers
    /\ b.due <= now
    /\ blurTimers' = blurTimers \ {b}
    /\ IF ~FocusWithin
       THEN /\ isDropdownVisible' = FALSE
            /\ successSinceDismiss' = FALSE
            /\ last' = [op |-> "blurDismiss",
                        arg |-> IF "success" \in b.since THEN "afterSuccess" ELSE "",
                        issued |-> FALSE]
       ELSE /\ UNCHANGED <<isDropdownVisible, successSinceDismiss>>
            /\ last' = [op |-> "blurKeep", arg |-> "", issued |-> FALSE]
    /\ UNCHANGED <<now, highlight, debVars, phase, input, products, loading, error,
                   inflight, nReq, activeElement, lastChangeAt, lastResolved>>

\* the try block throws: fetch() rejected, or apiResponse.json() rejected
Throws(resp) == resp.rejected \/ ~resp.parses

\* catch: setError("Failed to fetch data"); finally: setLoading(false)
SettleFailure(r, resp) ==
    /\ phase = "mounted"
    /\ r \in inflight
    /\ Throws(resp)
    /\ inflight' = inflight \ {r}
    /\ error' = ErrMsg
    /\ loading' = LoadingAfterSettle
    /\ isDropdownVisible' = VisibleAfterFailure
    /\ last' = [op |-> "failure", arg |-> r.q, issued |-> FALSE]
    /\ lastResolved' = "failure"
    /\ UNCHANGED <<now, highlight, debVars, phase, input, products, nReq, blurTimers,
                   activeElement, lastChangeAt, successSinceDismiss>>

ProductsAfterSuccess_Append(r, resp) == products \o resp.products

ProductsAfterSuccess_LatestOnly(r, resp) ==
    IF r.id = nReq THEN resp.products ELSE products

\* setProducts(data.products), whichever request r the response answers
ProductsAfterSuccess(r, resp) == resp.products

\* setProducts(data.products); setIsDropdownVisible(true); finally: setLoading(false)
SettleSuccess(r, resp) ==
    /\ phase = "mounted"
    /\ r \in inflight
    /\ ~Throws(resp)
    /\ resp.hasProducts
    /\ inflight' = inflight \ {r}
    /\ products' = ProductsAfterSuccess(r, resp)
    /\ isDropdownVisible' = TRUE
    /\ loading' = LoadingAfterSettle
    /\ last' = [op |-> "success", arg |-> r.q, issued |-> FALSE]
    /\ lastResolved' = "success"
    /\ successSinceDismiss' = TRUE
    /\ blurTimers' = Noted("success")
    /\ UNCHANGED <<now, highlight, debVars, phase, input, error, nReq, activeElement,
                   lastChangeAt>>

\* the body parsed but has no products: setProducts(undefined), and the next
\* render throws on products.length; the component is gone
SettleCrash(r, resp) ==
    /\ phase = "mounted"
    /\ r \in inflight
    /\ ~Throws(resp)
    /\ ~resp.hasProducts
    /\ phase' = "crashed"
    /\ inflight' = inflight \ {r}
    /\ last' = [op |-> "crash", arg |-> r.q, issued |-> FALSE]
    /\ UNCHANGED <<now, highlight, debVars, input, products, loading, error,
                   isDropdownVisible, nReq, blurTimers, activeElement,
                   lastChangeAt, lastResolved, successSinceDismiss>>

Next ==
    \/ Mount
    \/ FocusInput
    \/ \E v \in Typed : HandleChange(v)
    \/ \E title \in Titles(products) : HandleSelect(title)
    \/ HandleBlur
    \/ \E b \in blurTimers : BlurExpire(b)
    \/ \E r \in inflight, resp \in Responses : SettleFailure(r, resp)
    \/ \E r \in inflight, resp \in Responses : SettleSuccess(r, resp)
    \/ \E r \in inflight, resp \in Responses : SettleCrash(r, resp)
    \/ Tick(MaxTime)

Spec == Init /\ [][Next]_vars

----------------------------------------------------------------------------
\* Properties of the component (specification Spec)

\* a step in which fetchProducts sends a request
FetchStarts == inflight' \ inflight # {}

Settles(r, resp) ==
    SettleFailure(r, resp) \/ SettleSuccess(r, resp) \/ SettleCrash(r, resp)

\* C2: Keystroke burst yields one fetch.  Every request is sent only when at
\* least Wait has passed since the most recent change of input, and carries
\* the current input: the values typed in between get no request.
C2_OneFetchPerBurst ==
    [][\A r \in inflight' \ inflight :
           /\ now' >= lastChangeAt' + Wait
           /\ r.q = input']_vars

\* C3: Empty-input guard.  Setting input to "" (and the mount, where input is
\* "") sends no request and leaves loading as it was.
C3_EmptyInputGuard ==
    [][(Mount \/ HandleChange("")) =>
           /\ inflight' = inflight
           /\ nReq' = nReq
           /\ loading' = loading]_vars

\* a non-empty input was cleared while a request was in flight
C3_Witness ==
    /\ last = [op |-> "change", arg |-> "", issued |-> FALSE]
    /\ input = ""
    /\ inflight # {}
    /\ loading

\* C4: Failure leaves results untouched.  When a fetch fails (fetch rejects,
\* or the body does not parse), the step that handles the failure leaves
\* products and isDropdownVisible as they were, sets error to the fixed
\* string and loading to false.
C4_FailureLeavesResults ==
    [][\A r \in inflight : \A resp \in Responses :
           SettleFailure(r, resp) =>
               /\ products' = products
               /\ error' = ErrMsg
               /\ loading' = FALSE
               /\ isDropdownVisible' = isDropdownVisible]_vars

\* a fetch has just failed while two results were listed and visible
C4_Witness ==
    /\ last.op = "failure"
    /\ Len(products) = 2
    /\ isDropdownVisible
    /\ error = ErrMsg
    /\ ~loading

\* C5: a response with a non-success status is handled like a network
\* failure: error is set, products and isDropdownVisible are left alone.
C5_Non2xxIsFailure ==
    [][\A r \in inflight : \A resp \in Responses :
           (~resp.rejected /\ ~resp.ok /\ Settles(r, resp)) =>
               /\ error' = ErrMsg
               /\ products' = products
               /\ isDropdownVisible' = isDropdownVisible]_vars

\* C6: Selection terminality.  Right after handleSelect(title): input = title,
\* products is empty and isDropdownVisible is false.
C6_SelectionTerminality ==
    [][\A title \in Titles(products) :
           HandleSelect(title) =>
               /\ input' = title
               /\ products' = <<>>
               /\ isDropdownVisible' = FALSE]_vars

\* the second suggestion was selected, from a state where the input was "ap",
\* two results were listed and a request for "ap" had been sent
C6_Witness ==
    /\ last = [op |-> "select", arg |-> "apricot", issued |-> TRUE]
    /\ input = "apricot"
    /\ \E r \in inflight : r.q = "apricot"

\* C7 as stated: isDropdownVisible only if products is non-empty, the most
\* recently resolved fetch succeeded, and no dismissal followed that success.
C7_VisibilityInvariant_Original ==
    (phase = "mounted" /\ isDropdownVisible) =>
        /\ Len(products) > 0
        /\ lastResolved = "success"
        /\ successSinceDismiss

\* C7 (amended): isDropdownVisible only if some fetch has resolved with a
\* parsed products list and neither a selection nor a blur-dismissal has
\* happened since the latest such resolution.
C7_VisibilityInvariant ==
    isDropdownVisible => successSinceDismiss

\* isDropdownVisible with an empty products list and a failed latest fetch
C7_Witness ==
    /\ isDropdownVisible
    /\ products = <<>>
    /\ lastResolved = "failure"

\* the transitions of the rendered dropdown that C8 states and the code has
DropdownSteps ==
    /\ (~DropdownShown /\ DropdownShown') =>
           \E r \in inflight : \E resp \in Responses :
               SettleSuccess(r, resp) /\ Len(resp.products) > 0
    /\ \A title \in Titles(products) : HandleSelect(title) => ~DropdownShown'
    /\ \A b \in blurTimers :
           (BlurExpire(b) /\ activeElement # "input") => ~DropdownShown'

\* C8 as stated: Hidden initially; Hidden -> Visible only on a successful
\* fetch with non-empty results; Visible -> Hidden on selection, on a blur
\* with the focus outside, and whenever a fetch starts.
C8_DropdownMachine_Original ==
    /\ ~DropdownShown
    /\ [][DropdownSteps /\ (FetchStarts => ~DropdownShown')]_vars

\* C8 (amended): Hidden initially; Hidden -> Visible only on a successful
\* fetch with non-empty results; Visible -> Hidden on selection and on a blur
\* with the focus outside; a fetch started by a change of input leaves the
\* dropdown as it was.
C8_DropdownMachine ==
    /\ ~DropdownShown
    /\ [][/\ DropdownSteps
          /\ \A v \in Typed :
                 (HandleChange(v) /\ FetchStarts) =>
                     DropdownShown' = DropdownShown]_vars

\* the dropdown is shown while the fetch of the latest keystroke is in flight
C8_Witness ==
    /\ DropdownShown
    /\ last.op = "change"
    /\ last.issued
    /\ \E r \in inflight : r.q = input /\ r.id = nReq

\* C9: Loading invariant.  While the component is mounted, loading is true
\* only if a fetch is in flight.
C9_LoadingInvariant ==
    (phase = "mounted" /\ loading) => inflight # {}

\* loading with two fetches in flight
C9_Witness ==
    /\ loading
    /\ Cardinality(inflight) = 2

\* C10: Starting a fetch clears the previous error.
C10_StartClearsError ==
    [][FetchStarts => error' = NoError]_vars

\* C11: Blur-after-click.  When a suggestion was clicked after the blur (the
\* user's focus landed inside the container), the expiry of that blur's timer
\* does not change isDropdownVisible to false.
C11_BlurAfterClick ==
    [][\A b \in blurTimers :
           (BlurExpire(b) /\ "select" \in b.since) =>
               ~(isDropdownVisible /\ ~isDropdownVisible')]_vars

\* C12: Successful fetch.  When a fetch resolves with a parsed body that has a
\* products list, products becomes exactly that list, isDropdownVisible
\* becomes true and loading becomes false.
C12_SuccessfulFetch ==
    [][\A r \in inflight : \A resp \in Responses :
           SettleSuccess(r, resp) =>
               /\ products' = resp.products
               /\ isDropdownVisible' = TRUE
               /\ loading' = FALSE]_vars

\* a fetch has just succeeded with two products, replacing a one-product list
C12_Witness ==
    /\ last.op = "success"
    /\ nReq = 2
    /\ products = <<"apple", "apricot">>
    /\ isDropdownVisible
    /\ ~loading
    /\ inflight = {}

\* C15: Last-resolving response wins.  A response that succeeds for a request
\* older than the newest one issued still replaces products with its list
\* and leaves the other requests in flight; starting a request removes none
\* of the requests in flight.
C15_LastResolvingWins ==
    [][/\ \A r \in inflight : \A resp \in Responses :
              (SettleSuccess(r, resp) /\ r.id < nReq) =>
                  /\ products' = resp.products
                  /\ inflight' = inflight \ {r}
       /\ FetchStarts => inflight \subseteq inflight']_vars

\* the requests for "a" and then "ap" were in flight together and both
\* succeeded; the one for "a" resolved last and its list is what products holds
C15_Witness ==
    /\ phase = "mounted"
    /\ nReq = 2
    /\ inflight = {}
    /\ input = "ap"
    /\ error = NoError
    /\ last = [op |-> "success", arg |-> "a", issued |-> FALSE]
    /\ products = <<"apple">>

\* C17: Selecting a result re-triggers a search.  A selection of a title that
\* differs from the input sends a request for that title and sets loading;
\* and when a request for a title succeeds, isDropdownVisible becomes true
\* again, without any further user input.
C17_SelectRetriggersSearch ==
    [][/\ \A title \in Titles(products) :
              (HandleSelect(title) /\ title # input) =>
                  /\ loading'
                  /\ \E r \in inflight' \ inflight : r.q = title
       /\ \A r \in inflight : \A resp \in Responses :
              (SettleSuccess(r, resp) /\ r.q \notin Typed) =>
                  isDropdownVisible']_vars

\* "apple" was selected, the request the selection sent has succeeded with a
\* non-empty list, and the dropdown is shown again
C17_Witness ==
    /\ input = "apple"
    /\ last = [op |-> "success", arg |-> "apple", issued |-> FALSE]
    /\ DropdownShown

\* C18: A pending blur timer is never cancelled.  No step other than its own
\* expiry removes or re-arms a pending blur timer, and at its expiry
\* isDropdownVisible is set to false whenever the focus is not in the input,
\* whatever happened since the blur.
C18_BlurTimerNeverCancelled ==
    [][/\ \A b \in blurTimers :
              \/ BlurExpire(b)
              \/ \E c \in blurTimers' : c.n = b.n /\ c.due = b.due
       /\ \A b \in blurTimers :
              (BlurExpire(b) /\ activeElement # "input") =>
                  isDropdownVisible' = FALSE]_vars

\* a fetch succeeded between the blur and the expiry of its timer, and the
\* expiry has just hidden the results of that fetch
C18_Witness ==
    /\ last = [op |-> "blurDismiss", arg |-> "afterSuccess", issued |-> FALSE]
    /\ lastResolved = "success"
    /\ Len(products) > 0
    /\ ~isDropdownVisible

\* C19: Clearing the input changes only input.  handleChange with "" sets
\* input to "" and leaves products, isDropdownVisible, error and loading as
\* they were, so the results of the previous query stay listed, and shown if
\* they were shown.
C19_ClearChangesOnlyInput ==
    [][HandleChange("") =>
           /\ input' = ""
           /\ products' = products
           /\ isDropdownVisible' = isDropdownVisible
           /\ error' = error
           /\ loading' = loading
           /\ DropdownShown' = DropdownShown]_vars

\* the input has just been emptied and the results of the previous query are
\* still shown
C19_Witness ==
    /\ last = [op |-> "change", arg |-> "", issued |-> FALSE]
    /\ input = ""
    /\ DropdownShown

----------------------------------------------------------------------------
\* renderHighlightedText: strings are sequences of characters

\* longest product title and longest input rendered
MaxTextLen == 3
MaxInputLen == 2

\* characters of the titles, and of what the user types: letters in both
\* cases, and one character that means something in a regular expression
TextChars  == {"a", "A", "p"}
InputChars == {"a", "A", "p", "("}

SeqsOf(S, lo, hi) == UNION {[1..k -> S] : k \in lo..hi}

\* String.prototype.toLowerCase, character by character
Lower(c) == IF c = "A" THEN "a" ELSE IF c = "P" THEN "p" ELSE c

LowerSeq(str) == [k \in 1..Len(str) |-> Lower(str[k])]

\* new RegExp(`(${input})`, "gi") compiles: the input is the source of the
\* pattern, unescaped, so a "(" in it opens a group that nothing closes
\* (SyntaxError: unterminated group)
PatternValid(in) == \A k \in 1..Len(in) : in[k] # "("

\* the pattern, a non-empty run of letters, flag i, matches text at position q
MatchAt(text, in, q) ==
    /\ q + Len(in) - 1 <= Len(text)
    /\ \A k \in 1..Len(in) : Lower(text[q + k - 1]) = Lower(in[k])

\* text.split(/(in)/gi): p is where the current segment starts, q where the
\* next match is looked for; each match closes the segment before it and is
\* itself pushed, being the capture group
RECURSIVE Split(_, _, _, _)
Split(text, in, p, q) ==
    IF q > Len(text) THEN <<SubSeq(text, p, Len(text))>>
    ELSE IF MatchAt(text, in, q)
         THEN <<SubSeq(text, p, q - 1), SubSeq(text, q, q + Len(in) - 1)>>
                  \o Split(text, in, q + Len(in), q + Len(in))
         ELSE Split(text, in, p, q + 1)

\* part.toLowerCase() === input.toLowerCase() ? <b>part</b> : part
Marked(part, in) == LowerSeq(part) = LowerSeq(in)

\* renderHighlightedText(text) with the state input = in
RenderHighlightedText(text, in) ==
    IF ~PatternValid(in)
    THEN [text |-> text, input |-> in, parts |-> <<>>, marks |-> <<>>,
          status |-> "threw"]
    ELSE LET parts == Split(text, in, 1, 1)
         IN  [text |-> text, input |-> in, parts |-> parts,
              marks |-> [k \in 1..Len(parts) |-> Marked(parts[k], in)],
              status |-> "rendered"]

\* a title and a non-empty input, about to be rendered
InitHighlight ==
    /\ InitBase
    /\ highlight \in
           {[text |-> t, input |-> i, parts |-> <<>>, marks |-> <<>>,
             status |-> "pending"] :
                t \in SeqsOf(TextChars, 0, MaxTextLen),
                i \in SeqsOf(InputChars, 1, MaxInputLen)}

Render ==
    /\ highlight.status = "pending"
    /\ highlight' = RenderHighlightedText(highlight.text, highlight.input)
    /\ UNCHANGED <<now, debVars, compVars, histVars>>

NextHighlight == Render

SpecHighlight == InitHighlight /\ [][NextHighlight]_vars

RECURSIVE Concat(_)
Concat(parts) == IF parts = <<>> THEN <<>> ELSE parts[1] \o Concat(Tail(parts))

\* C16: Highlight round-trip.  For every title and every non-empty input,
\* renderHighlightedText returns segments whose concatenation, in order, is
\* the title, and a segment is marked exactly when it equals the input
\* case-insensitively.
C16_HighlightRoundTrip ==
    highlight.status \notin {"none", "pending"} =>
        /\ highlight.status = "rendered"
        /\ Concat(highlight.parts) = highlight.text
        /\ \A k \in 1..Len(highlight.parts) :
               highlight.marks[k] <=>
                   LowerSeq(highlight.parts[k]) = LowerSeq(highlight.input)

----------------------------------------------------------------------------
\* Debounce: the calls and invocations of one wrapped callback

RECURSIVE SelectInst(_, _)
SelectInst(log, d) ==
    IF log = <<>> THEN <<>>
    ELSE IF log[1].inst = d THEN <<log[1]>> \o SelectInst(Tail(log), d)
         ELSE SelectInst(Tail(log), d)

\* call i of the list cs ends a burst: no later call follows it by less than Wait
EndsBurst(cs, i) == i = Len(cs) \/ cs[i + 1].t >= cs[i].t + Wait

\* the bursts of cs whose quiet period has elapsed, as the indices of their last calls
ElapsedBursts(cs) == {i \in 1..Len(cs) : EndsBurst(cs, i) /\ cs[i].t + Wait <= now}

\* the k-th smallest element of a finite set of numbers
RECURSIVE Nth(_, _)
Nth(S, k) ==
    LET m == CHOOSE x \in S : \A y \in S : x <= y
    IN  IF k = 1 THEN m ELSE Nth(S \ {m}, k - 1)

\* C1: Debounce collapsing.  For each wrapped callback, the invocations made so
\* far are, in order, one per burst of calls (calls following one another by
\* less than Wait): each has the arguments of the last call of its burst and
\* happens exactly Wait after that call, so never inside the call; every burst
\* whose quiet period has elapsed has had its invocation, except possibly the
\* one due at this very instant.
C1_DebounceCollapsing ==
    \A d \in Instances :
        LET cs == SelectInst(calls, d)
            vs == SelectInst(invoked, d)
            B  == ElapsedBursts(cs)
        IN  /\ Len(vs) <= Cardinality(B)
            /\ \A k \in 1..Len(vs) :
                   /\ vs[k].args = cs[Nth(B, k)].args
                   /\ vs[k].t = cs[Nth(B, k)].t + Wait
                   /\ vs[k].t > cs[Nth(B, k)].t
            /\ \A k \in 1..Cardinality(B) :
                   k > Len(vs) => /\ k = Cardinality(B)
                                  /\ cs[Nth(B, k)].t + Wait = now

\* a burst of three calls with different last arguments has collapsed into one
\* invocation, carrying the arguments of the third call
C1_Witness ==
    LET cs == SelectInst(calls, "A")
        vs == SelectInst(invoked, "A")
    IN  /\ Len(cs) = 3
        /\ cs[2].t > cs[1].t /\ cs[2].t < cs[1].t + Wait
        /\ cs[3].t < cs[2].t + Wait
        /\ cs[3].args # cs[2].args
        /\ vs = <<[inst |-> "A", t |-> cs[3].t + Wait, args |-> cs[3].args]>>
        /\ now > cs[3].t + Wait
\* the scheduled, not yet fired invocations of instance d
Pending(d) == {t \in timers : t.inst = d}

\* C13: Single timer slot.  Each instance has at most one pending invocation,
\* the one its timeoutId names, scheduled by its latest call; and every
\* invocation made carries the arguments and deadline of a call that no later
\* call superseded: a cancelled invocation never fires.
C13_SingleTimerSlot ==
    \A d \in Instances :
        LET cs == SelectInst(calls, d)
            vs == SelectInst(invoked, d)
        IN  /\ Cardinality(Pending(d)) <= 1
            /\ \A t \in Pending(d) :
                   /\ t.id = timeoutId[d]
                   /\ cs # <<>>
                   /\ t.args = cs[Len(cs)].args
                   /\ t.due = cs[Len(cs)].t + Wait
            /\ \A k \in 1..Len(vs) :
                   \E i \in 1..Len(cs) :
                       /\ EndsBurst(cs, i)
                       /\ cs[i].args = vs[k].args
                       /\ cs[i].t + Wait = vs[k].t

\* a call with other arguments was made, later in time, while one was
\* pending; only the second call's invocation has fired
C13_Witness ==
    LET cs == SelectInst(calls, "B")
        vs == SelectInst(invoked, "B")
    IN  /\ Len(cs) = 2
        /\ cs[2].t > cs[1].t
        /\ cs[2].t < cs[1].t + Wait
        /\ cs[2].args # cs[1].args
        /\ Pending("B") = {}
        /\ Len(vs) = 1
        /\ vs[1].args = cs[2].args
        /\ now > cs[1].t + Wait
\* C14: Debounce isolation.  A call to one instance leaves the pending timer
\* and the timeoutId of every other instance as they were, and the firing of
\* one instance's timer invokes only that instance's callback.
C14_DebounceIsolation ==
    [][/\ \A d \in Instances : \A a \in CallArgs :
              DebouncedCall(d, a) =>
                  \A e \in Instances \ {d} :
                      /\ Pending(e)' = Pending(e)
                      /\ timeoutId'[e] = timeoutId[e]
                      /\ SelectInst(invoked', e) = SelectInst(invoked, e)
       /\ \A t \in timers :
              TimerFire(t) =>
                  \A e \in Instances \ {t.inst} :
                      /\ Pending(e)' = Pending(e)
                      /\ SelectInst(invoked', e) = SelectInst(invoked, e)]_vars

\* A was called while B's timer was pending, and B's callback was still
\* invoked, Wait after the call to B, as was A's
C14_Witness ==
    \E i \in 1..Len(calls) : \E j \in 1..Len(calls) :
        /\ i < j
        /\ calls[i].inst = "B"
        /\ calls[j].inst = "A"
        /\ calls[j].t > calls[i].t
        /\ calls[j].t < calls[i].t + Wait
        /\ Len(SelectInst(calls, "B")) = 1
        /\ SelectInst(invoked, "B") =
               <<[inst |-> "B", t |-> calls[i].t + Wait, args |-> calls[i].args]>>
        /\ Len(SelectInst(invoked, "A")) = 1
\* calls of d separated by at least Wait, none of them pending any more
SeparatedAndDone(d) ==
    LET cs == SelectInst(calls, d)
    IN  /\ \A i \in 1..(Len(cs) - 1) : cs[i + 1].t >= cs[i].t + Wait
        /\ Pending(d) = {}

\* C20: Debouncer reuse and liveness.  A scheduled invocation leaves the timer
\* table only by firing, which invokes the callback once with its call's
\* arguments, or by a later call to the same instance; every scheduled
\* invocation whose deadline the clock reaches does eventually leave it; and
\* K calls to an instance, each at least Wait after the one before, produce
\* exactly K invocations, in call order, each Wait after its call.
C20_ReuseAndLiveness ==
    /\ []<>(\A t \in timers : t.due > MaxDebounceTime)
    /\ [][\A t \in timers :
              t \notin timers' =>
                  \/ /\ TimerFire(t)
                     /\ invoked' = Append(invoked,
                                          [inst |-> t.inst, t |-> now, args |-> t.args])
                  \/ \E a \in CallArgs : DebouncedCall(t.inst, a)]_vars
    /\ [](\A d \in Instances :
              SeparatedAndDone(d) =>
                  LET cs == SelectInst(calls, d)
                      vs == SelectInst(invoked, d)
                  IN  /\ Len(vs) = Len(cs)
                      /\ \A k \in 1..Len(cs) :
                             /\ vs[k].args = cs[k].args
                             /\ vs[k].t = cs[k].t + Wait)

\* two calls to A, the second one Wait after the first, that is after the
\* first timer fired, with other arguments: two invocations, in call order
C20_Witness ==
    LET cs == SelectInst(calls, "A")
        vs == SelectInst(invoked, "A")
    IN  /\ Len(cs) = 2
        /\ cs[2].t = cs[1].t + Wait
        /\ cs[2].args # cs[1].args
        /\ Len(vs) = 2
        /\ vs[1].args = cs[1].args
        /\ vs[2].args = cs[2].args
        /\ Pending("A") = {}
====
